---- MODULE Spec2Model ----
(***************************************************************************)
(* Model of src/src/item.rs: the key/value cell Item<K, V> whose two       *)
(* fields are MaybeUninit slots, its accessors, its consuming operations   *)
(* and its Drop implementation, executed line by line, together with the   *)
(* caller that owns the cell and the values it hands in and gets back.     *)
(*                                                                         *)
(* A key or a value is an object [id, data]: id is its identity (what a    *)
(* drop-counting type would count on), data is what == compares.  A slot   *)
(* is a MaybeUninit<T>: [init, id, data], where init tells whether the     *)
(* slot logically holds an object and id/data are the bytes in it (they    *)
(* stay behind when the object is moved out by a read).                    *)
(***************************************************************************)
EXTENDS Integers, FiniteSets, Sequences, Bags, TLC

\* Number of objects (keys and values) the caller can create.
MaxObjs == 3
\* Keys and values carry data in 1..MaxData.
MaxData == 2

Data == 1..MaxData
Ids == 1..MaxObjs

VARIABLES
    cell,      \* the Item: [key: slot, value: slot]
    status,    \* "none" | "live" | "forgotten" | "dropped"
    pc,        \* the line the running operation is at, "idle" between operations
    op,        \* the operation running, or the last one run, on the cell
    args,      \* the arguments of that operation: [k, v] (0 where absent)
    pre,       \* the cell and the drop counters when that operation was entered
    locals,    \* the MaybeUninit locals: [key, value, old_value]
    ret,       \* the object the last operation returned or borrowed
    raw,       \* the (MaybeUninit<K>, MaybeUninit<V>) pair into_inner returned
    held,      \* the bag of values the caller owns outside the cell
    drops,     \* drops[i]: how many times the destructor of object i has run
    nextId,    \* the next fresh object identity
    trip,      \* progress of an into_inner / rebuild / drop cycle
    ub,        \* an uninitialized slot has been read as initialized
    contract,  \* the caller keeps the preconditions of the operations
    life,      \* of the live cell: the key given to new, the value last moved
               \* out through the raw access and replaced
    addr,      \* an ItemAddr: [id, offset]
    out        \* what the last operation on addr returned

\* The address and what was computed from it; the cell and its caller.
avars == <<addr, out>>
cvars == <<cell, status, pc, op, args, pre, locals, ret, raw, held, drops,
           nextId, trip, ub, contract, life>>
vars == <<cvars, avars>>

\* MaybeUninit::uninit(): no object, no meaningful bytes.
Uninit == [init |-> FALSE, id |-> 0, data |-> 0]

\* MaybeUninit::new(x).
MkInit(i, d) == [init |-> TRUE, id |-> i, data |-> d]

NoObj == [id |-> 0, data |-> 0]
NoArgs == [k |-> 0, v |-> 0]
NoLocals == [key |-> Uninit, value |-> Uninit, old_value |-> Uninit]
NoRaw == [key |-> Uninit, value |-> Uninit]
NoCell == [key |-> Uninit, value |-> Uninit]
NoTrip == [stage |-> "none", k |-> NoObj, v |-> NoObj]
NoLife == [key |-> NoObj, out |-> NoObj]

Obj(slot) == [id |-> slot.id, data |-> slot.data]

\* assume_init / assume_init_ref / assume_init_mut on a slot: the object in
\* it; on an uninitialized slot it is undefined behaviour and any object
\* created so far (with any data) may come out.
AssumeInit(slot, n) ==
    IF slot.init THEN {Obj(slot)}
    ELSE [id : 1..(n - 1), data : Data]

\* The identity of the object assume_init on a slot gives, for the uses
\* that only run its destructor.
AssumeInitId(slot, n) ==
    IF slot.init THEN {slot.id}
    ELSE 1..(n - 1)

\* Running the destructor of object i.
RunDrop(d, i) == [d EXCEPT ![i] = @ + 1]

\* Item::key (line 63) and Item::value (line 68) on cell c, n being the next
\* fresh identity: the objects the borrow may refer to.
key(c, n) == AssumeInit(c.key, n)
value(c, n) == AssumeInit(c.value, n)

\* Nothing has been computed from the address.
NoOut == [op |-> "none"]

Snapshot == [cell |-> cell, drops |-> drops]

Initialized(c) == c.key.init /\ c.value.init

\* The state before the first Item::new, with a caller that keeps the
\* preconditions (c) or not.
InitCell(c) ==
    /\ cell = NoCell
    /\ status = "none"
    /\ pc = "idle"
    /\ op = "none"
    /\ args = NoArgs
    /\ pre = [cell |-> NoCell, drops |-> [i \in Ids |-> 0]]
    /\ locals = NoLocals
    /\ ret = NoObj
    /\ raw = NoRaw
    /\ held = EmptyBag
    /\ drops = [i \in Ids |-> 0]
    /\ nextId = 1
    /\ trip = NoTrip
    /\ ub = FALSE
    /\ contract = c
    /\ life = NoLife

Init ==
    /\ InitCell(TRUE)
    /\ addr = [id |-> 0, offset |-> 0]
    /\ out = NoOut

\* Item::new that stores the value's data under the key and the key's under
\* the value.
NewCrossed ==
    /\ pc = "idle"
    /\ status # "live"
    /\ nextId + 1 <= MaxObjs
    /\ \E k \in Data, v \in Data :
        /\ cell' = [key |-> MkInit(nextId, v), value |-> MkInit(nextId + 1, k)]
        /\ args' = [k |-> k, v |-> v]
        /\ life' = [key |-> [id |-> nextId, data |-> k], out |-> NoObj]
    /\ status' = "live"
    /\ op' = "new"
    /\ pre' = Snapshot
    /\ nextId' = nextId + 2
    /\ ret' = NoObj
    /\ trip' = NoTrip
    /\ UNCHANGED <<pc, locals, raw, held, drops, ub, contract, avars>>

\* Item::new(key, value) with a fresh key and a fresh value.
New ==
    /\ pc = "idle"
    /\ status # "live"
    /\ nextId + 1 <= MaxObjs
    /\ \E k \in Data, v \in Data :
        /\ cell' = [key |-> MkInit(nextId, k), value |-> MkInit(nextId + 1, v)]
        /\ args' = [k |-> k, v |-> v]
        /\ life' = [key |-> [id |-> nextId, data |-> k], out |-> NoObj]
    /\ status' = "live"
    /\ op' = "new"
    /\ pre' = Snapshot
    /\ nextId' = nextId + 2
    /\ ret' = NoObj
    /\ trip' = NoTrip
    /\ UNCHANGED <<pc, locals, raw, held, drops, ub, contract, avars>>

\* A precondition the caller keeps when it obeys the contract.
Pre(P) == contract => P

\* Item::key (line 63): borrow of the key.
Key ==
    /\ pc = "idle"
    /\ status = "live"
    /\ Pre(Initialized(cell))
    /\ \E o \in key(cell, nextId) : ret' = o
    /\ ub' = (ub \/ ~cell.key.init)
    /\ op' = "key"
    /\ args' = NoArgs
    /\ pre' = Snapshot
    /\ UNCHANGED <<cell, status, pc, locals, raw, held, drops, nextId, trip,
                   contract, life,
                   avars>>

\* Item::value (line 68): borrow of the value.
Value ==
    /\ pc = "idle"
    /\ status = "live"
    /\ Pre(Initialized(cell))
    /\ \E o \in value(cell, nextId) : ret' = o
    /\ ub' = (ub \/ ~cell.value.init)
    /\ op' = "value"
    /\ args' = NoArgs
    /\ pre' = Snapshot
    /\ UNCHANGED <<cell, status, pc, locals, raw, held, drops, nextId, trip,
                   contract, life,
                   avars>>

\* Ord::cmp of the key type, on the data of two keys.
Cmp(a, b) == IF a < b THEN "Less" ELSE IF a = b THEN "Equal" ELSE "Greater"

\* Option: Some(x) and None.
Some(x) == <<x>>
None == <<>>

\* The cell Item::new(k, v) another owner holds, to compare against; its key
\* and value are not among the objects counted here (identity 0).
Other(k, v) == [key |-> MkInit(0, k), value |-> MkInit(0, v)]

\* PartialEq<K> for Item, line 127: self.key().eq(key).
ItemEqKey(c, k, n) == {a.data = k : a \in key(c, n)}

\* PartialOrd<K> for Item, line 133: Some(self.key().cmp(key)).
ItemPartialCmpKey(c, k, n) == {Some(Cmp(a.data, k)) : a \in key(c, n)}

\* PartialEq for Item that also compares the values.
ItemEqWithValues(c, o, n) ==
    {a.data = b.data /\ x.data = y.data :
        a \in key(c, n), b \in key(o, n), x \in value(c, n), y \in value(o, n)}

\* PartialEq for Item, line 139: self.key().eq(other.key()).
ItemEq(c, o, n) == {a.data = b.data : a \in key(c, n), b \in key(o, n)}

\* PartialOrd for Item with the operands exchanged.
ItemPartialCmpReversed(c, o, n) ==
    {Some(Cmp(b.data, a.data)) : a \in key(c, n), b \in key(o, n)}

\* PartialOrd for Item, line 145: Some(self.key().cmp(other.key())).
ItemPartialCmp(c, o, n) ==
    {Some(Cmp(a.data, b.data)) : a \in key(c, n), b \in key(o, n)}

\* What every comparison of the cell does besides computing its result.
Compare(o) ==
    /\ pc = "idle"
    /\ status = "live"
    /\ Pre(Initialized(cell))
    /\ ub' = (ub \/ ~cell.key.init)
    /\ op' = o
    /\ pre' = Snapshot
    /\ UNCHANGED <<cell, status, pc, locals, raw, held, drops, nextId, trip,
                   contract, life, avars>>

\* cell == k (lines 125-129).
EqKey ==
    /\ \E k \in Data :
        /\ \E r \in ItemEqKey(cell, k, nextId) : ret' = r
        /\ args' = [k |-> k, v |-> 0]
    /\ Compare("eq_key")

\* cell.partial_cmp(&k) (lines 131-135).
PartialCmpKey ==
    /\ \E k \in Data :
        /\ \E r \in ItemPartialCmpKey(cell, k, nextId) : ret' = r
        /\ args' = [k |-> k, v |-> 0]
    /\ Compare("partial_cmp_key")

\* cell == Item::new(k, v) (lines 137-141).
Eq ==
    /\ \E k \in Data, v \in Data :
        /\ \E r \in ItemEq(cell, Other(k, v), nextId) : ret' = r
        /\ args' = [k |-> k, v |-> v]
    /\ Compare("eq")

\* cell.partial_cmp(&Item::new(k, v)) (lines 143-147).
PartialCmp ==
    /\ \E k \in Data, v \in Data :
        /\ \E r \in ItemPartialCmp(cell, Other(k, v), nextId) : ret' = r
        /\ args' = [k |-> k, v |-> v]
    /\ Compare("partial_cmp")

\* value_mut that borrows the key (self.key.assume_init_mut()): the caller's
\* write lands there.
ValueMutWritesKey ==
    /\ pc = "idle"
    /\ status = "live"
    /\ Pre(Initialized(cell))
    /\ \E d \in Data :
        /\ cell' = [cell EXCEPT !.key.data = d]
        /\ args' = [k |-> 0, v |-> d]
    /\ ub' = (ub \/ ~cell.key.init)
    /\ op' = "value_mut"
    /\ pre' = Snapshot
    /\ ret' = NoObj
    /\ trip' = NoTrip
    /\ UNCHANGED <<status, pc, locals, raw, held, drops, nextId, contract, life,
                   avars>>

\* Item::value_mut (line 73) and the caller's write of new data through the
\* mutable borrow: the value keeps its identity.
ValueMut ==
    /\ pc = "idle"
    /\ status = "live"
    /\ Pre(Initialized(cell))
    /\ \E d \in Data :
        /\ cell' = [cell EXCEPT !.value.data = d]
        /\ args' = [k |-> 0, v |-> d]
    /\ ub' = (ub \/ ~cell.value.init)
    /\ op' = "value_mut"
    /\ pre' = Snapshot
    /\ ret' = NoObj
    /\ trip' = NoTrip
    /\ UNCHANGED <<status, pc, locals, raw, held, drops, nextId, contract, life,
                   avars>>

\* set_value that releases the value in the cell on entry.
SetValueDropsOld ==
    /\ pc = "idle"
    /\ status = "live"
    /\ contract => Initialized(cell)
    /\ nextId <= MaxObjs
    /\ \E v \in Data :
        /\ locals' = [locals EXCEPT !.old_value = MkInit(nextId, v)]
        /\ args' = [k |-> 0, v |-> v]
    /\ drops' = RunDrop(drops, cell.value.id)
    /\ nextId' = nextId + 1
    /\ op' = "set_value"
    /\ pre' = Snapshot
    /\ pc' = "set_value_swap"
    /\ ret' = NoObj
    /\ trip' = NoTrip
    /\ UNCHANGED <<cell, status, raw, held, ub, contract, life,
                   avars>>

\* Item::set_value, line 78: let mut old_value = MaybeUninit::new(value),
\* with a fresh value handed in by the caller.
SetValue ==
    /\ pc = "idle"
    /\ status = "live"
    /\ Pre(Initialized(cell))
    /\ nextId <= MaxObjs
    /\ \E v \in Data :
        /\ locals' = [locals EXCEPT !.old_value = MkInit(nextId, v)]
        /\ args' = [k |-> 0, v |-> v]
    /\ nextId' = nextId + 1
    /\ op' = "set_value"
    /\ pre' = Snapshot
    /\ pc' = "set_value_swap"
    /\ ret' = NoObj
    /\ trip' = NoTrip
    /\ UNCHANGED <<cell, status, raw, held, drops, ub, contract, life,
                   avars>>

\* set_value that moves the new value in and leaves nothing behind for the
\* old one: the slot handed back is empty.
SetValueSwapLosesOld ==
    /\ pc = "set_value_swap"
    /\ cell' = [cell EXCEPT !.value = Uninit]
    /\ locals' = [locals EXCEPT !.old_value = cell.value]
    /\ pc' = "set_value_ret"
    /\ UNCHANGED <<status, op, args, pre, ret, raw, held, drops, nextId, trip,
                   ub, contract, life,
                   avars>>

\* Item::set_value, line 79: std::mem::swap(&mut old_value, &mut self.value).
SetValueSwap ==
    /\ pc = "set_value_swap"
    /\ cell' = [cell EXCEPT !.value = locals.old_value]
    /\ locals' = [locals EXCEPT !.old_value = cell.value]
    /\ pc' = "set_value_ret"
    /\ UNCHANGED <<status, op, args, pre, ret, raw, held, drops, nextId, trip,
                   ub, contract, life,
                   avars>>

\* set_value that returns the value now in the cell instead of old_value.
SetValueReturnsNew ==
    /\ pc = "set_value_ret"
    /\ \E o \in AssumeInit(cell.value, nextId) :
        /\ ret' = o
        /\ held' = held (+) SetToBag({o})
    /\ ub' = (ub \/ ~cell.value.init)
    /\ locals' = NoLocals
    /\ pc' = "idle"
    /\ UNCHANGED <<cell, status, op, args, pre, raw, drops, nextId, trip,
                   contract, life,
                   avars>>

\* Item::set_value, line 80: old_value.assume_init() is returned to the
\* caller, who owns it from then on.
SetValueReturn ==
    /\ pc = "set_value_ret"
    /\ \E o \in AssumeInit(locals.old_value, nextId) :
        /\ ret' = o
        /\ held' = held (+) SetToBag({o})
    /\ ub' = (ub \/ ~locals.old_value.init)
    /\ locals' = NoLocals
    /\ pc' = "idle"
    /\ UNCHANGED <<cell, status, op, args, pre, raw, drops, nextId, trip,
                   contract, life,
                   avars>>

\* Item::maybe_uninit_value_mut (line 85) and the caller moving the value out
\* of the slot through it (assume_init_read): the bytes stay, the slot no
\* longer holds the value, the caller owns it.
RawTake ==
    /\ pc = "idle"
    /\ status = "live"
    /\ Pre(Initialized(cell))
    /\ \E o \in AssumeInit(cell.value, nextId) :
        /\ ret' = o
        /\ held' = held (+) SetToBag({o})
    /\ ub' = (ub \/ ~cell.value.init)
    /\ cell' = [cell EXCEPT !.value.init = FALSE]
    /\ op' = "raw_take"
    /\ args' = NoArgs
    /\ pre' = Snapshot
    /\ trip' = NoTrip
    /\ UNCHANGED <<status, pc, locals, raw, drops, nextId, contract, life,
                   avars>>

\* maybe_uninit_value_mut that hands out the key slot (&mut self.key): the
\* caller's write lands there.
RawWriteIntoKey ==
    /\ pc = "idle"
    /\ status = "live"
    /\ Pre(cell.key.init /\ ~cell.value.init)
    /\ nextId <= MaxObjs
    /\ \E v \in Data :
        /\ cell' = [cell EXCEPT !.key = MkInit(nextId, v)]
        /\ args' = [k |-> 0, v |-> v]
    /\ life' = [life EXCEPT !.out = Obj(cell.value)]
    /\ nextId' = nextId + 1
    /\ op' = "raw_write"
    /\ pre' = Snapshot
    /\ ret' = NoObj
    /\ trip' = NoTrip
    /\ UNCHANGED <<status, pc, locals, raw, held, drops, ub, contract, avars>>

\* Item::maybe_uninit_value_mut (line 85) and the caller writing a fresh value
\* into the slot through it (MaybeUninit::write): whatever the slot held is
\* overwritten without being dropped.
RawWrite ==
    /\ pc = "idle"
    /\ status = "live"
    /\ Pre(cell.key.init /\ ~cell.value.init)
    /\ nextId <= MaxObjs
    /\ \E v \in Data :
        /\ cell' = [cell EXCEPT !.value = MkInit(nextId, v)]
        /\ args' = [k |-> 0, v |-> v]
    /\ life' = [life EXCEPT !.out = Obj(cell.value)]
    /\ nextId' = nextId + 1
    /\ op' = "raw_write"
    /\ pre' = Snapshot
    /\ ret' = NoObj
    /\ trip' = NoTrip
    /\ UNCHANGED <<status, pc, locals, raw, held, drops, ub, contract, avars>>

\* Item::maybe_uninit_value_mut (line 85) and the caller moving a value it
\* owns (back) into the slot through it.
RawWriteBack ==
    /\ pc = "idle"
    /\ status = "live"
    /\ Pre(cell.key.init /\ ~cell.value.init)
    /\ \E h \in BagToSet(held) :
        /\ cell' = [cell EXCEPT !.value = MkInit(h.id, h.data)]
        /\ held' = held (-) SetToBag({h})
        /\ args' = [k |-> 0, v |-> h.data]
        /\ life' = [life EXCEPT !.out = IF Obj(cell.value) = h THEN NoObj
                                        ELSE Obj(cell.value)]
    /\ op' = "raw_write"
    /\ pre' = Snapshot
    /\ ret' = NoObj
    /\ trip' = NoTrip
    /\ UNCHANGED <<status, pc, locals, raw, drops, nextId, ub, contract, avars>>

\* The caller drops a value it owns.
CallerDrop ==
    /\ pc = "idle"
    /\ \E h \in BagToSet(held) :
        /\ drops' = RunDrop(drops, h.id)
        /\ held' = held (-) SetToBag({h})
    /\ UNCHANGED <<cell, status, pc, op, args, pre, locals, ret, raw, nextId,
                   trip, ub, contract, life,
                   avars>>

\* Entry of the body of Item::into_inner on behalf of operation o, lines
\* 107-108: let mut key = MaybeUninit::uninit(), value likewise.
Enter(o) ==
    /\ pc = "idle"
    /\ status = "live"
    /\ op' = o
    /\ args' = NoArgs
    /\ pre' = Snapshot
    /\ locals' = [locals EXCEPT !.key = Uninit, !.value = Uninit]
    /\ pc' = "into_inner_swap_key"
    /\ ret' = NoObj
    /\ trip' = NoTrip
    /\ UNCHANGED <<cell, status, raw, held, drops, nextId, ub, contract, life,
                   avars>>

\* Item::into_value, line 90: the call of self.into_inner().
IntoValue ==
    /\ Pre(Initialized(cell))
    /\ Enter("into_value")

\* Item::forget_value, line 100: the call of self.into_inner().  The caller
\* has moved the value out of the slot before.
ForgetValue ==
    /\ Pre(cell.key.init /\ ~cell.value.init)
    /\ Enter("forget_value")

\* Item::into_inner called by the owner of the cell.
IntoInner ==
    /\ Pre(Initialized(cell))
    /\ Enter("into_inner")

\* Item::into_inner, line 109: std::mem::swap(&mut key, &mut self.key).
IntoInnerSwapKey ==
    /\ pc = "into_inner_swap_key"
    /\ cell' = [cell EXCEPT !.key = locals.key]
    /\ locals' = [locals EXCEPT !.key = cell.key]
    /\ pc' = "into_inner_swap_value"
    /\ UNCHANGED <<status, op, args, pre, ret, raw, held, drops, nextId, trip,
                   ub, contract, life,
                   avars>>

\* into_inner without line 110: the value stays in the cell.
IntoInnerSwapValueSkipped ==
    /\ pc = "into_inner_swap_value"
    /\ pc' = "into_inner_forget"
    /\ UNCHANGED <<cell, status, op, args, pre, locals, ret, raw, held, drops,
                   nextId, trip, ub, contract, life,
                   avars>>

\* Item::into_inner, line 110: std::mem::swap(&mut value, &mut self.value).
IntoInnerSwapValue ==
    /\ pc = "into_inner_swap_value"
    /\ cell' = [cell EXCEPT !.value = locals.value]
    /\ locals' = [locals EXCEPT !.value = cell.value]
    /\ pc' = "into_inner_forget"
    /\ UNCHANGED <<status, op, args, pre, ret, raw, held, drops, nextId, trip,
                   ub, contract, life,
                   avars>>

\* into_inner without line 111: self is still owned when the function ends.
IntoInnerForgetSkipped ==
    /\ pc = "into_inner_forget"
    /\ pc' = "into_inner_ret"
    /\ UNCHANGED <<cell, status, op, args, pre, locals, ret, raw, held, drops,
                   nextId, trip, ub, contract, life,
                   avars>>

\* Item::into_inner, line 111: std::mem::forget(self): the emptied cell is
\* gone and its Drop will not run.
IntoInnerForget ==
    /\ pc = "into_inner_forget"
    /\ status' = "forgotten"
    /\ pc' = "into_inner_ret"
    /\ UNCHANGED <<cell, op, args, pre, locals, ret, raw, held, drops, nextId,
                   trip, ub, contract, life,
                   avars>>

\* into_inner that releases the key before returning the pair, the way
\* into_value does, and still hands the key slot out.
IntoInnerReturnDropsKey ==
    /\ pc = "into_inner_ret"
    /\ IF status = "live"
       THEN /\ pc' = "drop_key"
            /\ UNCHANGED <<raw, locals, trip, drops>>
       ELSE IF op = "into_inner"
       THEN /\ raw' = [key |-> locals.key, value |-> locals.value]
            /\ drops' = RunDrop(drops, locals.key.id)
            /\ locals' = NoLocals
            /\ trip' = [stage |-> "split", k |-> Obj(pre.cell.key),
                        v |-> Obj(pre.cell.value)]
            /\ pc' = "idle"
       ELSE /\ pc' = IF op = "into_value" THEN "into_value_drop_key"
                     ELSE "forget_value_drop_key"
            /\ UNCHANGED <<raw, locals, trip, drops>>
    /\ UNCHANGED <<cell, status, op, args, pre, ret, held, nextId, ub,
                   contract, life,
                   avars>>

\* Item::into_inner, lines 112-113: (key, value) is returned.  A self that
\* is still owned at the end of the function is dropped there first.
IntoInnerReturn ==
    /\ pc = "into_inner_ret"
    /\ IF status = "live"
       THEN /\ pc' = "drop_key"
            /\ UNCHANGED <<raw, locals, trip>>
       ELSE IF op = "into_inner"
       THEN /\ raw' = [key |-> locals.key, value |-> locals.value]
            /\ locals' = NoLocals
            /\ trip' = [stage |-> "split", k |-> Obj(pre.cell.key),
                        v |-> Obj(pre.cell.value)]
            /\ pc' = "idle"
       ELSE /\ pc' = IF op = "into_value" THEN "into_value_drop_key"
                     ELSE "forget_value_drop_key"
            /\ UNCHANGED <<raw, locals, trip>>
    /\ UNCHANGED <<cell, status, op, args, pre, ret, held, drops, nextId, ub,
                   contract, life,
                   avars>>

\* into_value without line 92: the key is not released.
IntoValueKeyKept ==
    /\ pc = "into_value_drop_key"
    /\ locals' = [locals EXCEPT !.key = Uninit]
    /\ pc' = "into_value_ret"
    /\ UNCHANGED <<cell, status, op, args, pre, ret, raw, held, drops, nextId,
                   trip, ub, contract, life,
                   avars>>

\* Item::into_value, line 92: std::mem::drop(key.assume_init()).
IntoValueDropKey ==
    /\ pc = "into_value_drop_key"
    /\ \E i \in AssumeInitId(locals.key, nextId) : drops' = RunDrop(drops, i)
    /\ ub' = (ub \/ ~locals.key.init)
    /\ locals' = [locals EXCEPT !.key = Uninit]
    /\ pc' = "into_value_ret"
    /\ UNCHANGED <<cell, status, op, args, pre, ret, raw, held, nextId, trip,
                   contract, life,
                   avars>>

\* Item::into_value, line 93: value.assume_init() is returned to the caller,
\* who owns it from then on.
IntoValueReturn ==
    /\ pc = "into_value_ret"
    /\ \E o \in AssumeInit(locals.value, nextId) :
        /\ ret' = o
        /\ held' = held (+) SetToBag({o})
    /\ ub' = (ub \/ ~locals.value.init)
    /\ locals' = NoLocals
    /\ pc' = "idle"
    /\ UNCHANGED <<cell, status, op, args, pre, raw, drops, nextId, trip,
                   contract, life,
                   avars>>

\* Item::forget_value, line 101: std::mem::drop(key.assume_init()).
ForgetValueDropKey ==
    /\ pc = "forget_value_drop_key"
    /\ \E i \in AssumeInitId(locals.key, nextId) : drops' = RunDrop(drops, i)
    /\ ub' = (ub \/ ~locals.key.init)
    /\ locals' = [locals EXCEPT !.key = Uninit]
    /\ pc' = "forget_value_forget"
    /\ UNCHANGED <<cell, status, op, args, pre, ret, raw, held, nextId, trip,
                   contract, life,
                   avars>>

\* forget_value that drops the value slot instead of forgetting it.
ForgetValueDropsValue ==
    /\ pc = "forget_value_forget"
    /\ \E o \in [id : 1..(nextId - 1), data : Data] :
        /\ locals.value.id # 0 => o = Obj(locals.value)
        /\ drops' = RunDrop(drops, o.id)
    /\ locals' = NoLocals
    /\ pc' = "idle"
    /\ UNCHANGED <<cell, status, op, args, pre, ret, raw, held, nextId, trip,
                   ub, contract, life,
                   avars>>

\* Item::forget_value, line 102: std::mem::forget(value): the slot is
\* discarded and no destructor runs.
ForgetValueForget ==
    /\ pc = "forget_value_forget"
    /\ locals' = NoLocals
    /\ pc' = "idle"
    /\ UNCHANGED <<cell, status, op, args, pre, ret, raw, held, drops, nextId,
                   trip, ub, contract, life,
                   avars>>

\* The owner lets the cell go out of scope: Drop::drop is entered.
Drop ==
    /\ pc = "idle"
    /\ status = "live"
    /\ Pre(Initialized(cell))
    /\ op' = "drop"
    /\ args' = NoArgs
    /\ pre' = Snapshot
    /\ pc' = "drop_key"
    /\ ret' = NoObj
    /\ UNCHANGED <<cell, status, locals, raw, held, drops, nextId, trip, ub,
                   contract, life,
                   avars>>

\* Drop::drop that releases the value where line 119 releases the key.
DropKeyAfterValue ==
    /\ pc = "drop_key"
    /\ \E i \in AssumeInitId(cell.value, nextId) : drops' = RunDrop(drops, i)
    /\ ub' = (ub \/ ~cell.value.init)
    /\ cell' = [cell EXCEPT !.value.init = FALSE]
    /\ pc' = "drop_value"
    /\ UNCHANGED <<status, op, args, pre, locals, ret, raw, held, nextId, trip,
                   contract, life, avars>>

\* Drop::drop, line 119: drop_in_place(self.key.assume_init_mut()).
DropKey ==
    /\ pc = "drop_key"
    /\ \E i \in AssumeInitId(cell.key, nextId) : drops' = RunDrop(drops, i)
    /\ ub' = (ub \/ ~cell.key.init)
    /\ cell' = [cell EXCEPT !.key.init = FALSE]
    /\ pc' = "drop_value"
    /\ UNCHANGED <<status, op, args, pre, locals, ret, raw, held, nextId, trip,
                   contract, life,
                   avars>>

\* Drop::drop that releases the value only when its slot is initialized.
DropValueChecked ==
    /\ pc = "drop_value"
    /\ drops' = IF cell.value.init THEN RunDrop(drops, cell.value.id) ELSE drops
    /\ cell' = [cell EXCEPT !.value.init = FALSE]
    /\ status' = "dropped"
    /\ pc' = IF op = "drop" THEN "idle" ELSE "into_inner_ret"
    /\ trip' = IF trip.stage = "rebuilt" /\ op = "drop"
               THEN [trip EXCEPT !.stage = "done"] ELSE trip
    /\ UNCHANGED <<op, args, pre, locals, ret, raw, held, nextId, ub, contract,
                   life, avars>>

\* Drop::drop without line 120: the value is not released.
DropValueSkipped ==
    /\ pc = "drop_value"
    /\ cell' = [cell EXCEPT !.value.init = FALSE]
    /\ status' = "dropped"
    /\ pc' = IF op = "drop" THEN "idle" ELSE "into_inner_ret"
    /\ trip' = IF trip.stage = "rebuilt" /\ op = "drop"
               THEN [trip EXCEPT !.stage = "done"] ELSE trip
    /\ UNCHANGED <<op, args, pre, locals, ret, raw, held, drops, nextId, ub,
                   contract, life,
                   avars>>

\* Drop::drop, line 120: drop_in_place(self.value.assume_init_mut()); the
\* cell is gone afterwards.
DropValue ==
    /\ pc = "drop_value"
    /\ \E i \in AssumeInitId(cell.value, nextId) : drops' = RunDrop(drops, i)
    /\ ub' = (ub \/ ~cell.value.init)
    /\ cell' = [cell EXCEPT !.value.init = FALSE]
    /\ status' = "dropped"
    /\ pc' = IF op = "drop" THEN "idle" ELSE "into_inner_ret"
    /\ trip' = IF trip.stage = "rebuilt" /\ op = "drop"
               THEN [trip EXCEPT !.stage = "done"] ELSE trip
    /\ UNCHANGED <<op, args, pre, locals, ret, raw, held, nextId, contract, life,
                   avars>>

\* The caller rebuilds a cell from the pair into_inner returned:
\* Item::new(key.assume_init(), value.assume_init()).
Rebuild ==
    /\ pc = "idle"
    /\ status # "live"
    /\ raw # NoRaw
    /\ Pre(Initialized(raw))
    /\ \E k \in AssumeInit(raw.key, nextId), v \in AssumeInit(raw.value, nextId) :
        /\ cell' = [key |-> MkInit(k.id, k.data), value |-> MkInit(v.id, v.data)]
        /\ args' = [k |-> k.data, v |-> v.data]
        /\ life' = [key |-> k, out |-> NoObj]
    /\ ub' = (ub \/ ~Initialized(raw))
    /\ raw' = NoRaw
    /\ status' = "live"
    /\ op' = "new"
    /\ pre' = Snapshot
    /\ ret' = NoObj
    /\ trip' = IF trip.stage = "split" THEN [trip EXCEPT !.stage = "rebuilt"]
               ELSE NoTrip
    /\ UNCHANGED <<pc, locals, held, drops, nextId, contract, avars>>

\* The caller drops the key and the value of the pair into_inner returned.
DropParts ==
    /\ pc = "idle"
    /\ raw # NoRaw
    /\ Pre(Initialized(raw))
    /\ \E k \in AssumeInitId(raw.key, nextId),
          v \in AssumeInitId(raw.value, nextId) :
        drops' = RunDrop(RunDrop(drops, k), v)
    /\ ub' = (ub \/ ~Initialized(raw))
    /\ raw' = NoRaw
    /\ trip' = NoTrip
    /\ UNCHANGED <<cell, status, pc, op, args, pre, locals, ret, held, nextId,
                   contract, life,
                   avars>>

Next ==
    \/ New
    \/ Key
    \/ Value
    \/ ValueMut
    \/ EqKey
    \/ PartialCmpKey
    \/ Eq
    \/ PartialCmp
    \/ SetValue
    \/ SetValueSwap
    \/ SetValueReturn
    \/ RawTake
    \/ RawWrite
    \/ RawWriteBack
    \/ CallerDrop
    \/ IntoValue
    \/ ForgetValue
    \/ IntoInner
    \/ IntoInnerSwapKey
    \/ IntoInnerSwapValue
    \/ IntoInnerForget
    \/ IntoInnerReturn
    \/ IntoValueDropKey
    \/ IntoValueReturn
    \/ ForgetValueDropKey
    \/ ForgetValueForget
    \/ Drop
    \/ DropKey
    \/ DropValue
    \/ Rebuild
    \/ DropParts

Spec == Init /\ [][Next]_vars

\* A caller that need not keep the preconditions.
InitAny ==
    /\ InitCell(FALSE)
    /\ addr = [id |-> 0, offset |-> 0]
    /\ out = NoOut

\* Every operation of the cell and of its caller, at any time, but the
\* comparisons, which read the key slot only.  Until the first undefined
\* read the caller starts any operation; after it, what is followed is the
\* operation in progress to its last line and the caller releasing what it
\* holds.
NextAny ==
    \/ ~ub /\ New
    \/ ~ub /\ Key
    \/ ~ub /\ Value
    \/ ~ub /\ ValueMut
    \/ ~ub /\ SetValue
    \/ ~ub /\ RawTake
    \/ ~ub /\ RawWrite
    \/ ~ub /\ RawWriteBack
    \/ ~ub /\ IntoValue
    \/ ~ub /\ ForgetValue
    \/ ~ub /\ IntoInner
    \/ ~ub /\ Rebuild
    \/ ~ub /\ Drop
    \/ SetValueSwap
    \/ SetValueReturn
    \/ IntoInnerSwapKey
    \/ IntoInnerSwapValue
    \/ IntoInnerForget
    \/ IntoInnerReturn
    \/ IntoValueDropKey
    \/ IntoValueReturn
    \/ ForgetValueDropKey
    \/ ForgetValueForget
    \/ DropKey
    \/ DropValue
    \/ CallerDrop
    \/ DropParts

SpecAny == InitAny /\ [][NextAny]_vars

\* The operations that leave the cell alive, the comparisons among them,
\* on one cell.
NextLive ==
    \/ New
    \/ Key
    \/ Value
    \/ ValueMut
    \/ SetValue
    \/ SetValueSwap
    \/ SetValueReturn
    \/ RawTake
    \/ RawWrite
    \/ RawWriteBack
    \/ EqKey
    \/ PartialCmpKey
    \/ Eq
    \/ PartialCmp

SpecLive == Init /\ [][NextLive]_vars

----------------------------------------------------------------------------
\* ItemAddr.  usize is modelled UsizeBits wide.
UsizeBits == 4

\* std::usize::MAX.
UsizeMax == 2 ^ UsizeBits - 1
Usize == 0..UsizeMax
Addrs == [id : Usize, offset : Usize]

\* ItemAddr::nowhere that returns the zero address.
nowhere_zero == [id |-> 0, offset |-> 0]

\* ItemAddr::nowhere (lines 19-24).
nowhere == [id |-> UsizeMax, offset |-> 0]

\* ItemAddr::is_nowhere (lines 27-29).
is_nowhere(a) == a.id = UsizeMax

\* Equality of addresses that looks at the id alone.
AddrEqById(a, b) == a.id = b.id

\* #[derive(PartialEq, Eq)] on ItemAddr (line 11): field by field.
AddrEq(a, b) == a.id = b.id /\ a.offset = b.offset

\* "{}" of a usize: its decimal digits, most significant first.
DigitChars == <<"0", "1", "2", "3", "4", "5", "6", "7", "8", "9">>
RECURSIVE Dec(_)
Dec(n) ==
    IF n < 10 THEN <<DigitChars[n + 1]>>
    ELSE Dec(n \div 10) \o <<DigitChars[(n % 10) + 1]>>

\* fmt::Display for ItemAddr (line 34): write!(f, "@{}:{}", id, offset), as
\* the sequence of the characters written.
Display(a) == <<"@">> \o Dec(a.id) \o <<":">> \o Dec(a.offset)

\* Debug written the way #[derive(Debug)] would write it.
DebugDerived(a) ==
    <<"ItemAddr { id: ">> \o Dec(a.id) \o <<", offset: ">> \o Dec(a.offset)
        \o <<" }">>

\* fmt::Debug for ItemAddr (line 40): write!(f, "@{}:{}", id, offset).
Debug(a) == <<"@">> \o Dec(a.id) \o <<":">> \o Dec(a.offset)

InitAddr ==
    /\ InitCell(TRUE)
    /\ addr \in Addrs
    /\ out = NoOut

\* ItemAddr { id, offset }: the container builds an address (lines 12-15).
AddrNew ==
    /\ \E i \in Usize, o \in Usize : addr' = [id |-> i, offset |-> o]
    /\ out' = [op |-> "new"]
    /\ UNCHANGED cvars

\* ItemAddr::nowhere().
AddrNowhere ==
    /\ addr' = nowhere
    /\ out' = [op |-> "nowhere", r |-> nowhere]
    /\ UNCHANGED cvars

\* addr.is_nowhere().
AddrIsNowhere ==
    /\ out' = [op |-> "is_nowhere", r |-> is_nowhere(addr)]
    /\ UNCHANGED <<addr, cvars>>

\* addr == ItemAddr::nowhere().
AddrEqNowhere ==
    /\ out' = [op |-> "eq_nowhere", r |-> AddrEq(addr, nowhere)]
    /\ UNCHANGED <<addr, cvars>>

\* format!("{}", addr).
AddrDisplay ==
    /\ out' = [op |-> "display", r |-> Display(addr)]
    /\ UNCHANGED <<addr, cvars>>

\* format!("{:?}", addr).
AddrDebug ==
    /\ out' = [op |-> "debug", r |-> Debug(addr)]
    /\ UNCHANGED <<addr, cvars>>

NextAddr ==
    \/ AddrNew
    \/ AddrNowhere
    \/ AddrIsNowhere
    \/ AddrEqNowhere
    \/ AddrDisplay
    \/ AddrDebug

SpecAddr == InitAddr /\ [][NextAddr]_vars

----------------------------------------------------------------------------
\* The operations that consume the cell, the safe operations that do not,
\* and the lines of Drop::drop.
Consuming == {"into_value", "forget_value", "into_inner"}
SafeOps == {"new", "key", "value", "value_mut", "set_value",
            "eq_key", "partial_cmp_key", "eq", "partial_cmp"}
DropLines == {"drop_key", "drop_value"}

\* C1: drop-once.  While the caller keeps the preconditions, no object handed
\* to a cell has its destructor run more than once, no slot is read while
\* uninitialized, and a cell consumed by into_value, forget_value or
\* into_inner never runs the lines of its ordinary drop.
C1_DropOnce ==
    /\ \A i \in Ids : drops[i] <= 1
    /\ ~ub
    /\ op \in Consuming => pc \notin DropLines /\ status # "dropped"
    /\ status = "forgotten" => pc \notin DropLines

\* A cell has been consumed by into_value after its value was replaced, and
\* the caller has dropped both values it got back: three destructors ran.
C1_Witness ==
    /\ op = "into_value"
    /\ pc = "idle"
    /\ status = "forgotten"
    /\ held = EmptyBag
    /\ Cardinality({i \in Ids : drops[i] = 1}) = 3

\* C2: after any safe non-consuming operation (new, key, value, value_mut,
\* set_value at each of its lines, and the four comparisons) the key slot and
\* the value slot are initialized; a live cell has a vacated value slot only
\* after the raw value access or inside a consuming operation or the drop,
\* and a vacated key slot only inside a consuming operation or the drop.
C2_Initialized ==
    /\ status = "live" /\ op \in SafeOps => Initialized(cell)
    /\ status = "live" /\ ~cell.value.init =>
           op \in Consuming \cup {"drop", "raw_take"}
    /\ status = "live" /\ ~cell.key.init => op \in Consuming \cup {"drop"}

\* A comparison has run on a cell whose value was replaced after new: both
\* slots are initialized.
C2_Witness ==
    /\ status = "live"
    /\ op = "partial_cmp"
    /\ pc = "idle"
    /\ Initialized(cell)
    /\ cell.key.id = life.key.id
    /\ cell.value.id # cell.key.id + 1

\* C3: when the ordinary drop of a fully initialized cell has finished, the
\* destructor of its key has run exactly once and the destructor of its value
\* has run exactly once, neither having run before.
C3_DropReleasesBoth ==
    op = "drop" /\ pc = "idle" /\ Initialized(pre.cell) =>
        /\ status = "dropped"
        /\ pre.drops[pre.cell.key.id] = 0
        /\ pre.drops[pre.cell.value.id] = 0
        /\ drops[pre.cell.key.id] = 1
        /\ drops[pre.cell.value.id] = 1

\* An ordinary drop of an initialized cell has finished.
C3_Witness ==
    /\ op = "drop"
    /\ pc = "idle"
    /\ status = "dropped"
    /\ Initialized(pre.cell)
    /\ drops[pre.cell.key.id] = 1
    /\ drops[pre.cell.value.id] = 1

\* C4: when into_value has returned, what it returned is the value the cell
\* held when it was called (same object, same data), the destructor of the
\* key the cell held has run exactly once, and the returned value has not
\* been destructed for as long as the caller keeps it.
C4_IntoValue ==
    op = "into_value" /\ pc = "idle" =>
        /\ ret = Obj(pre.cell.value)
        /\ pre.drops[pre.cell.key.id] = 0
        /\ drops[pre.cell.key.id] = 1
        /\ BagIn(ret, held) => drops[ret.id] = 0

\* into_value has returned the value of a cell, the key is released and the
\* caller still owns the untouched value.
C4_Witness ==
    /\ op = "into_value"
    /\ pc = "idle"
    /\ Initialized(pre.cell)
    /\ ret = Obj(pre.cell.value)
    /\ BagIn(ret, held)
    /\ drops[pre.cell.key.id] = 1
    /\ drops[ret.id] = 0

\* C5: when forget_value has finished on a cell whose value the caller had
\* moved out through the raw value access, the key has been destructed
\* exactly once; the moved-out value has been destructed zero times while the
\* caller keeps it and exactly once when the caller has dropped it.
C5_ForgetValue ==
    op = "forget_value" /\ pc = "idle" /\ ~pre.cell.value.init =>
        /\ drops[pre.cell.key.id] = 1
        /\ drops[pre.cell.value.id] =
               IF BagIn(Obj(pre.cell.value), held) THEN 0 ELSE 1

\* The value was moved out, forget_value has finished and the caller has
\* dropped the moved-out value.
C5_Witness ==
    /\ op = "forget_value"
    /\ pc = "idle"
    /\ ~pre.cell.value.init
    /\ pre.cell.value.id # 0
    /\ ~BagIn(Obj(pre.cell.value), held)
    /\ drops[pre.cell.key.id] = 1
    /\ drops[pre.cell.value.id] = 1

\* C6: round trip.  From into_inner's return on, the original key and value
\* are undestructed; the cell rebuilt from the returned pair is initialized,
\* holds the original key and value objects, key() and value() observe the
\* original data, and nothing is destructed until that cell is dropped; once
\* the rebuilt cell has been dropped, the key's and the value's destructors
\* have each run exactly once.
C6_RoundTrip ==
    /\ trip.stage = "split" =>
           drops[trip.k.id] = 0 /\ drops[trip.v.id] = 0
    /\ trip.stage = "rebuilt" =>
           /\ status = "live"
           /\ pc = "idle" =>
                  /\ Initialized(cell)
                  /\ key(cell, nextId) = {trip.k}
                  /\ value(cell, nextId) = {trip.v}
                  /\ drops[trip.k.id] = 0
                  /\ drops[trip.v.id] = 0
    /\ trip.stage = "done" =>
           /\ status = "dropped"
           /\ drops[trip.k.id] = 1
           /\ drops[trip.v.id] = 1

\* The full cycle has run: into_inner, rebuild, drop of the rebuilt cell.
C6_Witness ==
    /\ trip.stage = "done"
    /\ trip.k.id # 0
    /\ trip.v.id # 0
    /\ status = "dropped"
    /\ drops[trip.k.id] = 1
    /\ drops[trip.v.id] = 1

\* C7: when into_inner has returned, and until the caller uses the pair, the
\* returned key slot and value slot are the cell's slots as they were at the
\* call, initialized, no destructor has run on the key or the value, the cell
\* is forgotten with both of its slots vacated; and into_inner never reaches
\* the lines of the ordinary drop.
C7_IntoInner ==
    /\ op = "into_inner" => pc \notin DropLines /\ status # "dropped"
    /\ op = "into_inner" /\ pc = "idle" /\ raw # NoRaw =>
           /\ raw.key = pre.cell.key
           /\ raw.value = pre.cell.value
           /\ Initialized(raw)
           /\ drops[raw.key.id] = 0
           /\ drops[raw.value.id] = 0
           /\ status = "forgotten"
           /\ cell = NoCell

\* into_inner has returned the two slots of an initialized cell.
C7_Witness ==
    /\ op = "into_inner"
    /\ pc = "idle"
    /\ status = "forgotten"
    /\ Initialized(pre.cell)
    /\ raw = pre.cell
    /\ cell = NoCell

\* C8: when set_value(x) has returned, it has returned the value that
\* value() observed when it was called, and value() now observes x.
C8_SetValue ==
    op = "set_value" /\ pc = "idle" =>
        /\ {ret} = value(pre.cell, nextId)
        /\ \A o \in value(cell, nextId) : o.data = args.v
        /\ cell.value.id # ret.id

\* set_value has returned the old value after storing a value with other data.
C8_Witness ==
    /\ op = "set_value"
    /\ pc = "idle"
    /\ ret = Obj(pre.cell.value)
    /\ cell.value.data = args.v
    /\ ret.data # args.v

\* C9: at every line of set_value the value slot of the cell is initialized:
\* it holds the old value up to the swap and the new value from the swap on;
\* set_value runs no destructor, the new value is undestructed in the cell
\* and the old value is undestructed for as long as the caller keeps it.
C9_SetValueAtomic ==
    op = "set_value" =>
        /\ Initialized(cell)
        /\ cell.key = pre.cell.key
        /\ pc = "set_value_swap" =>
               cell.value = pre.cell.value /\ locals.old_value.init
        /\ pc # "set_value_swap" =>
               /\ cell.value.data = args.v
               /\ cell.value.id \notin {pre.cell.value.id, pre.cell.key.id}
        /\ pc = "set_value_ret" => locals.old_value = pre.cell.value
        /\ pc # "idle" => drops = pre.drops
        /\ drops[cell.value.id] = 0
        /\ drops[pre.cell.value.id] =
               IF pc = "idle" /\ ~BagIn(Obj(pre.cell.value), held) THEN 1 ELSE 0

\* set_value is between its swap and its return.
C9_Witness ==
    /\ op = "set_value"
    /\ pc = "set_value_ret"
    /\ cell.value.init
    /\ locals.old_value = pre.cell.value
    /\ cell.value # pre.cell.value

\* C10: after new(k, v) the cell is live with both slots initialized, key()
\* observes k and value() observes v, and the two are distinct objects.
C10_New ==
    op = "new" =>
        /\ status = "live"
        /\ Initialized(cell)
        /\ \A o \in key(cell, nextId) : o.data = args.k
        /\ \A o \in value(cell, nextId) : o.data = args.v
        /\ cell.key.id # cell.value.id

\* new(k, v) has built a cell with different key and value data.
C10_Witness ==
    /\ op = "new"
    /\ status = "live"
    /\ pre.cell = NoCell
    /\ args.k # args.v
    /\ cell.key.data = args.k
    /\ cell.value.data = args.v

\* C11: for a cell built by new(k1, v1), whatever its value has become
\* through set_value and value_mut, and for every k2, v2: the cell equals
\* new(k2, v2), and new(k2, v2) equals the cell, iff k1 = k2; every equality
\* test that was run returned that.
C11_EqByKey ==
    /\ status = "live" /\ cell.key.init =>
           \A k2 \in Data, v2 \in Data :
               /\ ItemEq(cell, Other(k2, v2), nextId) = {life.key.data = k2}
               /\ ItemEq(Other(k2, v2), cell, nextId) = {life.key.data = k2}
    /\ op = "eq" => ret = (life.key.data = args.k)

\* The cell's value was replaced since new, the cell was compared with a
\* cell of the same key and another value, and the test returned true.
C11_Witness ==
    /\ op = "eq"
    /\ ret = TRUE
    /\ life.key.data = args.k
    /\ cell.value.data # args.v
    /\ cell.value.id # cell.key.id + 1

\* C12: for a cell built with key k1 and every k2, v2: partial_cmp against
\* new(k2, v2) and against the bare key k2 is Some(Less) iff k1 < k2,
\* Some(Equal) iff k1 = k2, Some(Greater) iff k1 > k2, never None; the cell
\* equals the bare key k2 iff k1 = k2; the values play no part; every
\* comparison that was run returned that.
C12_OrderByKey ==
    LET ord(a, b) == CASE a < b -> Some("Less")
                       [] a = b -> Some("Equal")
                       [] a > b -> Some("Greater")
        k1 == life.key.data
    IN  /\ status = "live" /\ cell.key.init =>
               \A k2 \in Data :
                   /\ ItemPartialCmpKey(cell, k2, nextId) = {ord(k1, k2)}
                   /\ ItemEqKey(cell, k2, nextId) = {k1 = k2}
                   /\ \A v2 \in Data :
                       /\ ItemPartialCmp(cell, Other(k2, v2), nextId)
                              = {ord(k1, k2)}
                       /\ ItemPartialCmp(Other(k2, v2), cell, nextId)
                              = {ord(k2, k1)}
        /\ op \in {"partial_cmp", "partial_cmp_key"} =>
               ret = ord(k1, args.k) /\ ret # None
        /\ op = "eq_key" => ret = (k1 = args.k)

\* The cell, its value replaced since new, was compared with a cell of a
\* greater key and the same value data, and the result was Some(Less).
C12_Witness ==
    /\ op = "partial_cmp"
    /\ ret = Some("Less")
    /\ life.key.data < args.k
    /\ cell.value.data = args.v
    /\ cell.value.id # cell.key.id + 1

\* C13: nowhere() is the address with the greatest usize as id and offset 0,
\* and is_nowhere() holds of it; for every address is_nowhere() is true iff
\* the id is the greatest usize, whatever the offset.
C13_Nowhere ==
    LET greatest(x) == x + 1 = 2 ^ UsizeBits
    IN  /\ out.op = "nowhere" =>
               /\ addr = out.r
               /\ greatest(out.r.id)
               /\ out.r.offset = 0
               /\ is_nowhere(out.r)
        /\ is_nowhere(addr) <=> greatest(addr.id)
        /\ \A o \in Usize : is_nowhere([addr EXCEPT !.offset = o])
                                <=> is_nowhere(addr)
        /\ out.op = "is_nowhere" => out.r = greatest(addr.id)

\* is_nowhere() returned true for an address with a non-zero offset.
C13_Witness ==
    /\ out.op = "is_nowhere"
    /\ out.r = TRUE
    /\ addr.offset # 0
    /\ addr.id = UsizeMax

\* The number a sequence of decimal digits denotes.
DigitVal(c) ==
    CASE c = "0" -> 0 [] c = "1" -> 1 [] c = "2" -> 2 [] c = "3" -> 3
      [] c = "4" -> 4 [] c = "5" -> 5 [] c = "6" -> 6 [] c = "7" -> 7
      [] c = "8" -> 8 [] c = "9" -> 9
RECURSIVE NumVal(_)
NumVal(t) ==
    IF t = <<>> THEN 0
    ELSE 10 * NumVal(SubSeq(t, 1, Len(t) - 1)) + DigitVal(t[Len(t)])

\* t is the decimal rendering of n: digits only, no leading zero.
IsDecimal(t, n) ==
    /\ Len(t) >= 1
    /\ \A i \in 1..Len(t) :
           t[i] \in {"0", "1", "2", "3", "4", "5", "6", "7", "8", "9"}
    /\ Len(t) > 1 => t[1] # "0"
    /\ NumVal(t) = n

\* t is '@', the decimal id, ':', the decimal offset, and nothing else.
IsAddrText(t, a) ==
    /\ Len(t) >= 4
    /\ t[1] = "@"
    /\ \E c \in 3..(Len(t) - 1) :
           /\ t[c] = ":"
           /\ IsDecimal(SubSeq(t, 2, c - 1), a.id)
           /\ IsDecimal(SubSeq(t, c + 1, Len(t)), a.offset)

\* C14: the Display rendering of every address is '@', the decimal id, ':'
\* and the decimal offset; the Debug rendering is the same text; every
\* rendering that was produced is that text.
C14_Format ==
    /\ IsAddrText(Display(addr), addr)
    /\ Debug(addr) = Display(addr)
    /\ out.op \in {"display", "debug"} => IsAddrText(out.r, addr)

\* The sentinel address, with its two-digit id, was rendered for debugging.
C14_Witness ==
    /\ out.op = "debug"
    /\ addr = nowhere
    /\ Len(out.r) >= 5
    /\ out.r[Len(out.r)] = "0"

\* C19: two addresses are equal iff their ids are equal and their offsets
\* are equal; an address equal to nowhere() satisfies is_nowhere(), and an
\* address with the sentinel id and a non-zero offset satisfies is_nowhere()
\* without being equal to nowhere().
C19_StructuralEq ==
    /\ \A b \in Addrs :
           AddrEq(addr, b) <=> (addr.id = b.id /\ addr.offset = b.offset)
    /\ AddrEq(addr, nowhere) => is_nowhere(addr)
    /\ is_nowhere(addr) /\ addr.offset # 0 => ~AddrEq(addr, nowhere)
    /\ out.op = "eq_nowhere" =>
           /\ out.r = (addr.id = UsizeMax /\ addr.offset = 0)
           /\ out.r => is_nowhere(addr)

\* An address that is_nowhere() was compared with nowhere() and differs.
C19_Witness ==
    /\ out.op = "eq_nowhere"
    /\ out.r = FALSE
    /\ is_nowhere(addr)
    /\ addr.offset # 0

\* C15: after the caller has written a value into the vacated value slot
\* through the raw access, the cell is fully initialized, value() observes
\* the written value, the key is the one given to new, and nothing has been
\* destructed by the write; the value that was moved out is destructed by
\* its owner alone (zero times while the caller keeps it, once when the
\* caller has dropped it), also after the ordinary drop of the refilled cell,
\* which destructs the key once and the value then in the cell once.
C15_Refill ==
    /\ op = "raw_write" =>
           /\ ~pre.cell.value.init
           /\ status = "live"
           /\ Initialized(cell)
           /\ cell.key = pre.cell.key
           /\ key(cell, nextId) = {life.key}
           /\ \A o \in value(cell, nextId) : o.data = args.v
           /\ drops[cell.key.id] = 0
           /\ drops[cell.value.id] = 0
    /\ life.out # NoObj =>
           drops[life.out.id] = IF BagIn(life.out, held) THEN 0 ELSE 1
    /\ op = "drop" /\ pc = "idle" /\ life.out # NoObj =>
           /\ pre.cell.value.id # life.out.id
           /\ drops[pre.cell.key.id] = 1
           /\ drops[pre.cell.value.id] = 1

\* A refilled cell has been dropped while the caller still keeps the value
\* it had moved out: key and new value destructed once, old value not.
C15_Witness ==
    /\ op = "drop"
    /\ pc = "idle"
    /\ status = "dropped"
    /\ life.out # NoObj
    /\ BagIn(life.out, held)
    /\ drops[life.out.id] = 0
    /\ drops[pre.cell.key.id] = 1
    /\ drops[pre.cell.value.id] = 1

\* C16: with a caller that does not keep the preconditions, the ordinary
\* drop entered with a vacated value slot runs to its end, releasing the key
\* and then one more object read from the vacated slot (undefined
\* behaviour); value(), set_value and into_value entered in that state read
\* the vacated slot as well; and the first undefined read of a run always is
\* the read of a vacated value slot, in the cell or carried out of it.
C16_VacatedUse ==
    /\ [](/\ op = "drop" /\ status = "dropped" /\ ~pre.cell.value.init =>
                 /\ ub
                 /\ \E i \in Ids : \A j \in Ids :
                        drops[j] >=
                            RunDrop(RunDrop(pre.drops, pre.cell.key.id), i)[j]
          /\ op = "value" /\ ~pre.cell.value.init => ub
          /\ op \in {"set_value", "into_value"} /\ pc = "idle"
                 /\ ~pre.cell.value.init => ub)
    /\ [][~ub /\ ub' =>
              \/ /\ pc = "idle"
                 /\ op' \in {"value", "value_mut", "raw_take"}
                 /\ ~cell.value.init
              \/ pc = "set_value_ret" /\ ~locals.old_value.init
              \/ pc = "into_value_ret" /\ ~locals.value.init
              \/ pc = "drop_value" /\ ~cell.value.init
              \/ pc = "idle" /\ raw # NoRaw /\ ~raw.value.init]_vars

\* new; the value is moved out through the raw access and dropped by the
\* caller; the ordinary drop then releases it a second time.
C16_Witness ==
    /\ op = "drop"
    /\ pc = "idle"
    /\ status = "dropped"
    /\ ub
    /\ ~pre.cell.value.init
    /\ ~BagIn(Obj(pre.cell.value), held)
    /\ pre.drops[pre.cell.value.id] = 1
    /\ drops[pre.cell.value.id] = 2
    /\ drops[pre.cell.key.id] = 1

\* Object i is owned: it is in an initialized slot or in the caller's hands.
Owned(i) ==
    \/ \E h \in BagToSet(held) : h.id = i
    \/ \E t \in {cell.key, cell.value, locals.key, locals.value,
                locals.old_value, raw.key, raw.value} : t.init /\ t.id = i

\* Object i exists, nobody owns it and its destructor has not run.
Leaked(i) == i < nextId /\ ~Owned(i) /\ drops[i] = 0

\* C17: with a caller that does not keep the preconditions, forget_value
\* destructs the key exactly once (at line 101) and no other object while it
\* runs, whatever the value slot holds (in a run without an undefined read,
\* which forget_value itself never makes); called on a cell whose value is
\* present, it leaves that value leaked, and a leaked object stays leaked
\* for ever (short of undefined behaviour); called after the value was moved
\* out, the value is destructed by the caller alone.
C17_ForgetValue ==
    /\ [](op = "forget_value" /\ ~ub =>
            /\ pre.drops[pre.cell.key.id] = 0
            /\ drops[pre.cell.key.id] =
                   IF pc \in {"forget_value_forget", "idle"} THEN 1 ELSE 0
            /\ pc # "idle" =>
                   \A i \in Ids \ {pre.cell.key.id} : drops[i] = pre.drops[i]
            /\ pc = "idle" /\ pre.cell.value.init =>
                   status = "forgotten" /\ Leaked(pre.cell.value.id)
            /\ pc = "idle" /\ ~pre.cell.value.init =>
                   drops[pre.cell.value.id] =
                       IF BagIn(Obj(pre.cell.value), held) THEN 0 ELSE 1)
    /\ [][op = "forget_value" /\ pc # "idle" => ub' = ub]_vars
    /\ [][\A i \in Ids : Leaked(i) /\ ~ub' => Leaked(i)']_vars

\* forget_value has run on a cell whose value was present: the key is
\* destructed, the value is leaked.
C17_Witness ==
    /\ op = "forget_value"
    /\ pc = "idle"
    /\ status = "forgotten"
    /\ pre.cell.value.init
    /\ Leaked(pre.cell.value.id)
    /\ drops[pre.cell.key.id] = 1

\* The operations that only read the cell (every step records its operation
\* in op).
ReadOps == {"key", "value", "eq_key", "partial_cmp_key", "eq", "partial_cmp"}

\* C18: while the cell is alive and only non-consuming operations run
\* (value, value_mut, set_value, raw access with vacating and refilling,
\* comparisons), the key slot is initialized and holds the key given to new,
\* undestructed, and key() returns it; key(), value() and the comparisons
\* change nothing of the cell and of what the caller owns.
C18_KeyFrame ==
    /\ [](status = "live" =>
            /\ cell.key.init
            /\ Obj(cell.key) = life.key
            /\ key(cell, nextId) = {life.key}
            /\ drops[life.key.id] = 0
            /\ op = "key" => ret = life.key)
    /\ [][op' \in ReadOps =>
              UNCHANGED <<cell, status, pc, locals, raw, held, drops, nextId,
                          life>>]_vars

\* key() returns the key given to new after the value slot was vacated and
\* refilled and the value mutated in place.
C18_Witness ==
    /\ op = "key"
    /\ status = "live"
    /\ ret = life.key
    /\ life.out # NoObj
    /\ cell.value.id # life.out.id
    /\ cell.value.data # life.out.data

\* C20: the key is released first.  In the ordinary drop nothing is
\* destructed before line 119 and after it the key is destructed and the
\* value is not; in into_value the key is destructed before the value is
\* returned; in forget_value the key is destructed before the value slot is
\* discarded.
C20_KeyFirst ==
    /\ op = "drop" /\ pc = "drop_key" => drops = pre.drops
    /\ op = "drop" /\ pc = "drop_value" =>
           /\ drops = RunDrop(pre.drops, pre.cell.key.id)
           /\ drops[pre.cell.key.id] = 1
           /\ drops[pre.cell.value.id] = 0
           /\ cell.value.init
    /\ pc \in {"into_value_drop_key", "forget_value_drop_key"} =>
           /\ drops = pre.drops
           /\ locals.value = pre.cell.value
    /\ pc = "into_value_ret" =>
           /\ drops = RunDrop(pre.drops, pre.cell.key.id)
           /\ locals.value = pre.cell.value
           /\ ret = NoObj
           /\ ~BagIn(Obj(pre.cell.value), held)
    /\ pc = "forget_value_forget" =>
           /\ drops = RunDrop(pre.drops, pre.cell.key.id)
           /\ locals.value = pre.cell.value

\* The ordinary drop is between its two lines: key released, value not yet.
C20_Witness ==
    /\ op = "drop"
    /\ pc = "drop_value"
    /\ drops[pre.cell.key.id] = 1
    /\ drops[pre.cell.value.id] = 0
    /\ cell.value.init

====
